---- MODULE Spec2Model ----
(***************************************************************************)
(* A model of the lazy evaluation graph of include/lazy.hpp: source nodes  *)
(* (root), memoized nodes (node), combinators (path), the registry (Graph) *)
(* with its snapshots, and the demonstration program main.cpp.             *)
(*                                                                         *)
(* Node identities are 1, 2, ... in creation order.  A node that has been  *)
(* destroyed keeps its identity: weak references to it (downstream edges,  *)
(* registry entries, snapshot entries) simply fail to lock.                *)
(*                                                                         *)
(* The user functions of the model take their parameters by value and      *)
(* return by value, like the lambdas of main.cpp; every payload type of a  *)
(* graph node is int.                                                      *)
(***************************************************************************)
EXTENDS Integers, Sequences, FiniteSets, TLC

\* ------------------------------------------------------------------ bounds
MaxNodes == 3

\* ------------------------------------------------- values and input sets
\* an empty std::shared_ptr<const Type>
Null == 0 - 1
\* outcomes of undefined behaviour: the process dies, or the read yields
\* the value that is still in place, or it yields some other value
Crash == 0 - 2
Intact == 0 - 3
Garbage == {0}
RootUB == {Crash} \cup Garbage
PathUB == {Intact} \cup Garbage

SrcVals == {1, 2}
MainVals == {1, 2, 233, 666}
UnaryFns == {"inc", "dbl"}
BinaryFns == {"add", "mul"}
NewFns == {"inc", "dbl", "add"}
RegistryFns == {"inc", "add"}
GraphsFns == {"inc"}
NewVals == {Null, 1}
GraphIds == {"default", "user"}
EvalOrders == {"ltr", "rtl"}

VARIABLES
    nodes,      \* id -> [kind, fn, ups]: the objects created so far
    val,        \* id -> the value slot (root::value, node::value), or Null
    down,       \* id -> lazy_base::downstream, a list of weak references
    refcnt,     \* id -> number of owning references (shared_ptr use count)
    handle,     \* the ids the caller holds a shared_ptr to
    graphs,     \* registry -> Graph::nodes, a list of weak references
    active,     \* active_graph
    snap,       \* the Snapshot the caller holds: a list of [node, box]
    crashed,    \* the process was killed by undefined behaviour
    op,         \* the last operation the caller made: [name, node, arg]
    ret,        \* what the last get returned (Null for the other operations)
    err,        \* the exception the last operation threw, or "none"
    gets,       \* id -> get() calls on it during the last operation
    calls,      \* id -> user function invocations during the last operation
    cleared,    \* the nodes whose filled slot the last operation reset
    stored,     \* the nodes Graph::load stored into in the last operation
    pruned,     \* dead weak references erased during the last operation
    ubread,     \* the last operation dereferenced an empty root::value
    dangling,   \* the last operation read through path::get's reference
    loaded,     \* Graph::load has been called
    recv,       \* the registry the last operation was called on, or "none"
    dumped,     \* node -> the slot it had when the snapshot was dumped
    step        \* position in the run of main.cpp, -1 once off its script

vars == <<nodes, val, down, refcnt, handle, graphs, active, snap,
          crashed, op, ret, err, gets, calls, cleared, stored, pruned,
          ubread, dangling, loaded, recv, dumped, step>>

\* ------------------------------------------------------------ helpers
Ids == 1..Len(nodes)

Range(s) == {s[i] : i \in 1..Len(s)}

RemoveAt(s, i) == SubSeq(s, 1, i - 1) \o SubSeq(s, i + 1, Len(s))

\* the lambdas handed to Node and Path
Apply(fn, a) ==
    CASE fn = "inc" -> a[1] + 1
      [] fn = "dbl" -> 2 * a[1]
      [] fn = "add" -> a[1] + a[2]
      [] fn = "mul" -> a[1] * a[2]

Arity(fn) == IF fn \in UnaryFns THEN 1 ELSE 2

\* The machine state the operations work on: the heap of the program plus
\* the tallies of the operation in progress.
Machine ==
    [nodes |-> nodes, val |-> val, down |-> down, refcnt |-> refcnt,
     handle |-> handle, graphs |-> graphs, active |-> active,
     gets |-> [n \in Ids |-> 0], calls |-> [n \in Ids |-> 0],
     cleared |-> {}, stored |-> {}, pruned |-> 0,
     crash |-> FALSE, ubread |-> FALSE, dangling |-> FALSE]

EmptyMachine ==
    [nodes |-> <<>>, val |-> <<>>, down |-> <<>>, refcnt |-> <<>>,
     handle |-> {}, graphs |-> [g \in GraphIds |-> <<>>], active |-> "default",
     gets |-> <<>>, calls |-> <<>>,
     cleared |-> {}, stored |-> {}, pruned |-> 0,
     crash |-> FALSE, ubread |-> FALSE, dangling |-> FALSE]

\* weak_ptr::lock succeeds
Alive(M, n) == M.refcnt[n] > 0

\* ------------------------------------------------- lazy_base and subclasses
\* path::release, root::release, node::release
Release(M, n) ==
    IF M.nodes[n].kind = "path" THEN M
    ELSE [M EXCEPT !.val[n] = Null,
                   !.cleared = IF M.val[n] # Null THEN @ \cup {n} ELSE @]

RECURSIVE Unset(_, _, _), UnsetWalk(_, _, _)
\* a walk that resets the direct dependents only
UnsetWalkShallow(M, n, i) ==
    IF i > Len(M.down[n]) THEN M
    ELSE LET m == M.down[n][i] IN
         IF Alive(M, m)
         THEN UnsetWalk(Release(M, m), n, i + 1)
         ELSE UnsetWalk([M EXCEPT !.down[n] = RemoveAt(@, i),
                                  !.pruned = @ + 1], n, i)

\* a walk that erases every edge it has followed
UnsetWalkEraseAll(M, n, i) ==
    IF i > Len(M.down[n]) THEN M
    ELSE LET m == M.down[n][i] IN
         IF Alive(M, m)
         THEN UnsetWalk([Unset(M, m, TRUE) EXCEPT !.down[n] = RemoveAt(@, i)],
                        n, i)
         ELSE UnsetWalk([M EXCEPT !.down[n] = RemoveAt(@, i),
                                  !.pruned = @ + 1], n, i)

\* a walk that steps over a dead edge and leaves it in the list
UnsetWalkKeepDead(M, n, i) ==
    IF i > Len(M.down[n]) THEN M
    ELSE LET m == M.down[n][i] IN
         IF Alive(M, m)
         THEN UnsetWalk(Unset(M, m, TRUE), n, i + 1)
         ELSE UnsetWalk(M, n, i + 1)

\* the loop of lazy_base::unset, at position i of the downstream list of n
UnsetWalk(M, n, i) ==
    IF i > Len(M.down[n]) THEN M
    ELSE LET m == M.down[n][i] IN
         IF Alive(M, m)
         THEN UnsetWalk(Unset(M, m, TRUE), n, i + 1)
         ELSE UnsetWalk([M EXCEPT !.down[n] = RemoveAt(@, i),
                                  !.pruned = @ + 1], n, i)

Unset(M, n, unset_itself) ==
    UnsetWalk(IF unset_itself THEN Release(M, n) ELSE M, n, 1)

\* root::set
RootSet(M, n, v) == [Unset(M, n, TRUE) EXCEPT !.val[n] = v]

\* a set that stores the value and then resets the node
NodeSetStoreFirst(M, n, v) == Unset([M EXCEPT !.val[n] = v], n, TRUE)

\* node::set
NodeSet(M, n, v) == [Unset(M, n, TRUE) EXCEPT !.val[n] = v]

\* entering n->get()
Enter(M, n) == [M EXCEPT !.gets[n] = @ + 1]

\* root::get: *value, undefined when value is empty
RootGet(M, n, ub) ==
    IF M.val[n] # Null THEN [M |-> M, v |-> M.val[n]]
    ELSE IF ub.root = Crash
         THEN [M |-> [M EXCEPT !.crash = TRUE, !.ubread = TRUE], v |-> Null]
         ELSE [M |-> [M EXCEPT !.ubread = TRUE], v |-> ub.root]

\* The end of path::get: it returns a reference to the temporary that held
\* the result of function(), and the temporary is gone when the caller
\* reads through the reference.
PathResult(r, ub) ==
    [M |-> [r.M EXCEPT !.dangling = TRUE],
     v |-> IF ub.path = Intact THEN r.v ELSE ub.path]

RECURSIVE Get(_, _, _), Call(_, _, _), PathGet(_, _, _), NodeGet(_, _, _)
\* the closure of function_wrapper: function(args->get()...); the order in
\* which the arguments are evaluated is left to the compiler
Call(M, n, ub) ==
    LET ups == M.nodes[n].ups
        fn  == M.nodes[n].fn
        Done(R, a) ==
            IF R.M.crash THEN [M |-> R.M, v |-> Null]
            ELSE [M |-> [R.M EXCEPT !.calls[n] = @ + 1], v |-> Apply(fn, a)]
    IN  IF Len(ups) = 1
        THEN LET r1 == Get(M, ups[1], ub) IN Done(r1, <<r1.v>>)
        ELSE IF ub.order = "ltr"
             THEN LET r1 == Get(M, ups[1], ub)
                      r2 == Get(r1.M, ups[2], ub)
                  IN  Done(r2, <<r1.v, r2.v>>)
             ELSE LET r2 == Get(M, ups[2], ub)
                      r1 == Get(r2.M, ups[1], ub)
                  IN  Done(r1, <<r1.v, r2.v>>)

\* a combinator that keeps its first result
PathGetCached(M, n, ub) ==
    IF M.val[n] # Null THEN [M |-> M, v |-> M.val[n]]
    ELSE LET r == Call(M, n, ub) IN
         IF r.M.crash THEN r
         ELSE [M |-> [r.M EXCEPT !.val[n] = r.v], v |-> r.v]

\* path::get
PathGet(M, n, ub) ==
    LET r == Call(M, n, ub) IN
    IF r.M.crash THEN r ELSE PathResult(r, ub)

\* a memoized node that does not look at its cache
NodeGetNoMemo(M, n, ub) ==
    LET r == Call(M, n, ub) IN
    IF r.M.crash THEN r
    ELSE LET M2 == NodeSet(r.M, n, r.v)
         IN  [M |-> M2, v |-> M2.val[n]]

\* node::get
NodeGet(M, n, ub) ==
    IF M.val[n] # Null THEN [M |-> M, v |-> M.val[n]]
    ELSE LET r == Call(M, n, ub) IN
         IF r.M.crash THEN r
         ELSE LET M2 == NodeSet(r.M, n, r.v)
              IN  [M |-> M2, v |-> M2.val[n]]

\* args->get(): the get of the object the handle points to
Get(M, n, ub) ==
    IF M.crash THEN [M |-> M, v |-> Null]
    ELSE CASE M.nodes[n].kind = "root" -> RootGet(Enter(M, n), n, ub)
           [] M.nodes[n].kind = "path" -> PathGet(Enter(M, n), n, ub)
           [] M.nodes[n].kind = "node" -> NodeGet(Enter(M, n), n, ub)

\* ----------------------------------------------------------- construction
\* std::make_shared<...>(): a fresh object, owned by the handle returned
Alloc(M, rec) ==
    [M EXCEPT !.nodes = Append(@, rec), !.val = Append(@, Null),
              !.down = Append(@, <<>>), !.refcnt = Append(@, 1),
              !.gets = Append(@, 0), !.calls = Append(@, 0),
              !.handle = @ \cup {Len(M.nodes) + 1}]

\* an add that always goes to the built-in registry
GraphAddDefault(M, g, n) == [M EXCEPT !.graphs["default"] = Append(@, n)]

\* Graph::add on the registry g
GraphAdd(M, g, n) == [M EXCEPT !.graphs[g] = Append(@, n)]

\* Root<Type>() for v = Null, Root(Type&& v) otherwise
Root(M, v) ==
    LET n  == Len(M.nodes) + 1
        M1 == Alloc(M, [kind |-> "root", fn |-> "none", ups |-> <<>>])
        M2 == IF v = Null THEN M1 ELSE RootSet(M1, n, v)
    IN  GraphAdd(M2, M2.active, n)

RECURSIVE Wire(_, _, _, _), WireBack(_, _, _, _)
\* a wiring that also makes each upstream node a dependent of the new node
WireBack(M, n, ups, i) ==
    IF i > Len(ups) THEN M
    ELSE WireBack([M EXCEPT !.refcnt[ups[i]] = @ + 1,
                            !.down[ups[i]] = Append(@, n),
                            !.down[n] = Append(@, ups[i])], n, ups, i + 1)

\* a closure that holds its upstream nodes without owning them
WireWeak(M, n, ups, i) ==
    IF i > Len(ups) THEN M
    ELSE Wire([M EXCEPT !.down[ups[i]] = Append(@, n)], n, ups, i + 1)

\* the copies of the upstream handles captured by the closure of
\* function_wrapper, and (args->downstream.push_back(...), ...)
Wire(M, n, ups, i) ==
    IF i > Len(ups) THEN M
    ELSE Wire([M EXCEPT !.refcnt[ups[i]] = @ + 1,
                        !.down[ups[i]] = Append(@, n)], n, ups, i + 1)

\* Node(function, args...)
Node(M, fn, ups) ==
    LET n  == Len(M.nodes) + 1
        M1 == Alloc(M, [kind |-> "node", fn |-> fn, ups |-> ups])
        M2 == Wire(M1, n, ups, 1)
    IN  GraphAdd(M2, M2.active, n)

\* Path(function, args...)
Path(M, fn, ups) ==
    LET n  == Len(M.nodes) + 1
        M1 == Alloc(M, [kind |-> "path", fn |-> fn, ups |-> ups])
    IN  Wire(M1, n, ups, 1)

\* ------------------------------------------------------------- destruction
RECURSIVE DecRef(_, _), DecAll(_, _, _)
\* ~shared_ptr: the object dies with its last owner; its closure then lets
\* go of the upstream handles it captured
DecRef(M, n) ==
    LET M1 == [M EXCEPT !.refcnt[n] = @ - 1] IN
    IF M1.refcnt[n] > 0 THEN M1
    ELSE DecAll([M1 EXCEPT !.val[n] = Null, !.down[n] = <<>>],
                M1.nodes[n].ups, 1)

DecAll(M, ups, i) ==
    IF i > Len(ups) THEN M ELSE DecAll(DecRef(M, ups[i]), ups, i + 1)

\* the caller lets go of its handle to n
DropHandle(M, n) == DecRef([M EXCEPT !.handle = @ \ {n}], n)

\* ---------------------------------------------------------------- registry
\* the payload type of a node: std::shared_ptr<const Type> with Type = int
PayloadType(n) == "int"

\* a dump that boxes an empty pointer
NodeDumpEmpty(M, n) == [type |-> PayloadType(n), ptr |-> Null]

\* root::dump, node::dump: std::any(value)
NodeDump(M, n) == [type |-> PayloadType(n), ptr |-> M.val[n]]

\* a load that goes through the invalidation walk, as set does
NodeLoadViaSet(M, n, box) ==
    IF box.type # PayloadType(n) THEN [M |-> M, err |-> "bad_any_cast"]
    ELSE [M |-> [Unset(M, n, TRUE) EXCEPT !.val[n] = box.ptr,
                                          !.stored = @ \cup {n}],
          err |-> "none"]

\* a load that fills an empty slot and leaves a filled one alone
NodeLoadIfEmpty(M, n, box) ==
    IF box.type # PayloadType(n) THEN [M |-> M, err |-> "bad_any_cast"]
    ELSE [M |-> [M EXCEPT !.val[n] = IF @ = Null THEN box.ptr ELSE @,
                          !.stored = @ \cup {n}],
          err |-> "none"]

\* root::load, node::load: std::any_cast throws std::bad_any_cast when the
\* box holds another type
NodeLoad(M, n, box) ==
    IF box.type # PayloadType(n) THEN [M |-> M, err |-> "bad_any_cast"]
    ELSE [M |-> [M EXCEPT !.val[n] = box.ptr, !.stored = @ \cup {n}],
          err |-> "none"]

RECURSIVE DumpWalk(_, _, _, _), DumpWalkKeepDead(_, _, _, _)
RECURSIVE DumpWalkReversed(_, _, _, _), DumpWalkMove(_, _, _, _)
\* a dump that moves the slot into the box and leaves the node empty
DumpWalkMove(M, g, i, result) ==
    IF i > Len(M.graphs[g]) THEN [M |-> M, snap |-> result]
    ELSE LET n == M.graphs[g][i] IN
         IF Alive(M, n)
         THEN DumpWalkMove([M EXCEPT !.val[n] = Null], g, i + 1,
                       Append(result, [node |-> n, box |-> NodeDump(M, n)]))
         ELSE DumpWalkMove([M EXCEPT !.graphs[g] = RemoveAt(@, i),
                                     !.pruned = @ + 1], g, i, result)

\* a dump that puts each entry at the front of the result
DumpWalkReversed(M, g, i, result) ==
    IF i > Len(M.graphs[g]) THEN [M |-> M, snap |-> result]
    ELSE LET n == M.graphs[g][i] IN
         IF Alive(M, n)
         THEN DumpWalkReversed(M, g, i + 1,
                       <<[node |-> n, box |-> NodeDump(M, n)]>> \o result)
         ELSE DumpWalkReversed([M EXCEPT !.graphs[g] = RemoveAt(@, i),
                                         !.pruned = @ + 1], g, i, result)

\* a dump that steps over a dead entry and leaves it in the list
DumpWalkKeepDead(M, g, i, result) ==
    IF i > Len(M.graphs[g]) THEN [M |-> M, snap |-> result]
    ELSE LET n == M.graphs[g][i] IN
         IF Alive(M, n)
         THEN DumpWalkKeepDead(M, g, i + 1,
                       Append(result, [node |-> n, box |-> NodeDump(M, n)]))
         ELSE DumpWalkKeepDead(M, g, i + 1, result)

\* the loop of Graph::dump on registry g, at position i of its list
DumpWalk(M, g, i, result) ==
    IF i > Len(M.graphs[g]) THEN [M |-> M, snap |-> result]
    ELSE LET n == M.graphs[g][i] IN
         IF Alive(M, n)
         THEN DumpWalk(M, g, i + 1,
                       Append(result, [node |-> n, box |-> NodeDump(M, n)]))
         ELSE DumpWalk([M EXCEPT !.graphs[g] = RemoveAt(@, i),
                                 !.pruned = @ + 1], g, i, result)

GraphDump(M, g) == DumpWalk(M, g, 1, <<>>)

RECURSIVE LoadWalk(_, _, _)
\* the loop of Graph::load, at position i of the snapshot
LoadWalk(M, snapshot, i) ==
    IF i > Len(snapshot) THEN [M |-> M, snap |-> snapshot, err |-> "none"]
    ELSE LET e == snapshot[i] IN
         IF Alive(M, e.node)
         THEN LET r == NodeLoad(M, e.node, e.box) IN
              IF r.err # "none"
              THEN [M |-> r.M, snap |-> snapshot, err |-> r.err]
              ELSE LoadWalk(r.M, snapshot, i + 1)
         ELSE LoadWalk([M EXCEPT !.pruned = @ + 1], RemoveAt(snapshot, i), i)

\* a load that visits only the entries of nodes registered in g
GraphLoadOwn(M, g, snapshot) ==
    LoadWalk(M, SelectSeq(snapshot, LAMBDA e : e.node \in Range(M.graphs[g])), 1)

\* Graph::load on the registry g
GraphLoad(M, g, snapshot) == LoadWalk(M, snapshot, 1)

\* ------------------------------------------------------------- main.cpp
\* lines 5, 6, 9 and 10 of main
MainGraph ==
    LET M1 == Root(EmptyMachine, 1)
        M2 == Root(M1, 2)
        M3 == Path(M2, "add", <<1, 2>>)
    IN  Node(M3, "mul", <<3, 1>>)

\* lines 11 to 15 of main: the position after the operation o
NextStep(s, o) ==
    CASE s = 0 /\ o = [name |-> "get", node |-> 4, arg |-> Null] -> 1
      [] s = 1 /\ o = [name |-> "set", node |-> 1, arg |-> 233] -> 2
      [] s = 2 /\ o = [name |-> "get", node |-> 4, arg |-> Null] -> 3
      [] s = 3 /\ o = [name |-> "set", node |-> 2, arg |-> 666] -> 4
      [] s = 4 /\ o = [name |-> "get", node |-> 4, arg |-> Null] -> 5
      [] OTHER -> 0 - 1

\* ----------------------------------------------------------------- states
Start(M, s) ==
    /\ nodes = M.nodes /\ val = M.val /\ down = M.down
    /\ refcnt = M.refcnt /\ handle = M.handle
    /\ graphs = M.graphs /\ active = M.active
    /\ snap = <<>>
    /\ crashed = FALSE
    /\ op = [name |-> "init", node |-> 0, arg |-> Null]
    /\ ret = Null /\ err = "none"
    /\ gets = [n \in 1..Len(M.nodes) |-> 0]
    /\ calls = [n \in 1..Len(M.nodes) |-> 0]
    /\ cleared = {} /\ stored = {}
    /\ pruned = 0 /\ ubread = FALSE /\ dangling = FALSE
    /\ loaded = FALSE
    /\ recv = "none" /\ dumped = <<>>
    /\ step = s

Init == Start(EmptyMachine, 0 - 1)

InitMain == Start(MainGraph, 0)

\* the state after an operation o that left the machine in M
Finish(M, o, r, e) ==
    /\ nodes' = M.nodes /\ val' = M.val /\ down' = M.down
    /\ refcnt' = M.refcnt /\ handle' = M.handle
    /\ graphs' = M.graphs /\ active' = M.active
    /\ gets' = M.gets /\ calls' = M.calls
    /\ cleared' = M.cleared /\ stored' = M.stored /\ pruned' = M.pruned
    /\ crashed' = M.crash /\ ubread' = M.ubread /\ dangling' = M.dangling
    /\ op' = o /\ ret' = r /\ err' = e
    /\ step' = NextStep(step, o)

\* ------------------------------------------------------------- operations
\* an operation that is no call on a registry and leaves the snapshot alone
Quiet == recv' = "none" /\ UNCHANGED <<snap, loaded, dumped>>

\* handle = Root<int>() for v = Null, handle = Root(v) otherwise
CreateRoot(v) ==
    /\ ~crashed /\ Len(nodes) < MaxNodes
    /\ Finish(Root(Machine, v),
              [name |-> "root", node |-> Len(nodes) + 1, arg |-> v],
              Null, "none")
    /\ Quiet

\* the argument lists the caller can pass: handles it holds
UpsFor(fn) ==
    IF Arity(fn) = 1 THEN {<<a>> : a \in handle}
    ELSE {<<a, b>> : a \in handle, b \in handle}

\* handle = Node(fn, ups...)
CreateNode(fn, ups) ==
    /\ ~crashed /\ Len(nodes) < MaxNodes
    /\ Finish(Node(Machine, fn, ups),
              [name |-> "node", node |-> Len(nodes) + 1, arg |-> Null],
              Null, "none")
    /\ Quiet

\* handle = Path(fn, ups...)
CreatePath(fn, ups) ==
    /\ ~crashed /\ Len(nodes) < MaxNodes
    /\ Finish(Path(Machine, fn, ups),
              [name |-> "path", node |-> Len(nodes) + 1, arg |-> Null],
              Null, "none")
    /\ Quiet

\* source->set(v)
SetOp(n, v) ==
    /\ ~crashed /\ n \in handle /\ nodes[n].kind = "root"
    /\ Finish(RootSet(Machine, n, v),
              [name |-> "set", node |-> n, arg |-> v], Null, "none")
    /\ Quiet

\* the nodes a get on n can reach: n and everything upstream of it
RECURSIVE Reads(_)
Reads(n) ==
    {n} \cup UNION {Reads(nodes[n].ups[i]) : i \in 1..Len(nodes[n].ups)}

\* what the build makes of a get on n: the outcome of each undefined read
\* and the order of argument evaluation, where the get has any
Outcomes(n) ==
    [root  : IF \E m \in Reads(n) : nodes[m].kind = "root" /\ val[m] = Null
             THEN RootUB ELSE {Crash},
     path  : IF \E m \in Reads(n) : nodes[m].kind = "path"
             THEN PathUB ELSE {Intact},
     order : IF \E m \in Reads(n) : Len(nodes[m].ups) = 2
             THEN EvalOrders ELSE {"ltr"}]

\* handle->get(), the caller reading the result
GetOp(n) ==
    /\ ~crashed /\ n \in handle
    /\ \E ub \in Outcomes(n) :
          LET r == Get(Machine, n, ub) IN
          Finish(r.M, [name |-> "get", node |-> n, arg |-> Null], r.v, "none")
    /\ Quiet

\* the caller destroys its last copy of the handle
DropOp(n) ==
    /\ ~crashed /\ n \in handle
    /\ Finish(DropHandle(Machine, n),
              [name |-> "drop", node |-> n, arg |-> Null], Null, "none")
    /\ Quiet

\* snapshot = g.dump()
DumpOp(g) ==
    /\ ~crashed
    /\ LET r == GraphDump(Machine, g) IN
          /\ Finish(r.M, [name |-> "dump", node |-> 0, arg |-> Null],
                    Null, "none")
          /\ snap' = r.snap
          /\ dumped' = [n \in {r.snap[i].node : i \in 1..Len(r.snap)} |-> val[n]]
    /\ recv' = g
    /\ UNCHANGED loaded

\* the caller's copy of its snapshot, entry bad replaced by a box of another
\* type (bad = 0: the snapshot as dump returned it)
Retyped(snapshot, bad) ==
    [i \in 1..Len(snapshot) |->
        IF i = bad THEN [snapshot[i] EXCEPT !.box.type = "long"]
        ELSE snapshot[i]]

\* g.load(snapshot), or g.load(copy) for a retyped copy that is then dropped
LoadOp(g, bad) ==
    /\ ~crashed
    /\ LET r == GraphLoad(Machine, g, Retyped(snap, bad)) IN
          /\ Finish(r.M, [name |-> "load", node |-> 0, arg |-> bad],
                    Null, r.err)
          /\ snap' = IF bad = 0 THEN r.snap ELSE snap
          /\ loaded' = TRUE
    /\ recv' = g
    /\ UNCHANGED dumped

\* use_graph(g)
UseGraph(g) ==
    /\ ~crashed /\ g # active
    /\ Finish([Machine EXCEPT !.active = g],
              [name |-> "use", node |-> 0, arg |-> Null], Null, "none")
    /\ Quiet

\* the graph alone: sources, memoized nodes and combinators
Next ==
    \/ \E v \in NewVals : CreateRoot(v)
    \/ \E fn \in NewFns : \E ups \in UpsFor(fn) : CreateNode(fn, ups)
    \/ \E fn \in NewFns : \E ups \in UpsFor(fn) : CreatePath(fn, ups)
    \/ \E n \in Ids : \E v \in SrcVals : SetOp(n, v)
    \/ \E n \in Ids : GetOp(n)
    \/ \E n \in Ids : DropOp(n)

Spec == Init /\ [][Next]_vars

\* the registry over a graph of initialized sources and memoized nodes
NextRegistry ==
    \/ \E v \in NewVals \ {Null} : CreateRoot(v)
    \/ \E fn \in RegistryFns : \E ups \in UpsFor(fn) : CreateNode(fn, ups)
    \/ \E n \in Ids : \E v \in SrcVals : SetOp(n, v)
    \/ \E n \in Ids : GetOp(n)
    \/ \E n \in Ids : DropOp(n)
    \/ DumpOp("default")
    \/ \E bad \in 0..Len(snap) : LoadOp("default", bad)

SpecRegistry == Init /\ [][NextRegistry]_vars

\* two registries: the built-in one and one of the caller, either of them
\* active, dumped or loaded through; sources keep their construction value
NextGraphs ==
    \/ \E v \in NewVals \ {Null} : CreateRoot(v)
    \/ \E fn \in GraphsFns : \E ups \in UpsFor(fn) : CreateNode(fn, ups)
    \/ \E fn \in GraphsFns : \E ups \in UpsFor(fn) : CreatePath(fn, ups)
    \/ \E n \in Ids : GetOp(n)
    \/ \E n \in Ids : DropOp(n)
    \/ \E g \in GraphIds : DumpOp(g)
    \/ \E g \in GraphIds : LoadOp(g, 0)
    \/ \E g \in GraphIds : UseGraph(g)

SpecGraphs == Init /\ [][NextGraphs]_vars

NextMain ==
    \/ \E n \in {1, 2} : \E v \in MainVals : SetOp(n, v)
    \/ \E n \in {1, 2, 3, 4} : GetOp(n)

SpecMain == InitMain /\ [][NextMain]_vars

\* ------------------------------------------------------------ vocabulary
Live(n) == refcnt[n] > 0

Memo(n) == nodes[n].kind = "node"

Comb(n) == nodes[n].kind = "path"

Source(n) == nodes[n].kind = "root"

\* the sources n transitively depends on
Sources(n) == {m \in Reads(n) : Source(m)}

AllSet(n) == \A m \in Sources(n) : val[m] # Null

\* the value of n as a function of the current values of the sources
RECURSIVE Expected(_)
Expected(n) ==
    IF Source(n) THEN val[n]
    ELSE Apply(nodes[n].fn,
               [i \in 1..Len(nodes[n].ups) |-> Expected(nodes[n].ups[i])])

IsGet(o, n) == o.name = "get" /\ o.node = n

NoCalls == \A n \in Ids : calls[n] = 0

\* a source a, a memoized b over a alone and a memoized c over b alone
Chain(a, b, c) ==
    /\ Source(a)
    /\ Memo(b) /\ nodes[b].ups = <<a>>
    /\ Memo(c) /\ nodes[c].ups = <<b>>

\* ------------------------------------------------------------------ C1
\* C1: when Graph::load has not been called, every filled cache of a live
\* memoized node whose sources all hold a value equals the node's function
\* applied to the current values upstream, and so does the result of every
\* get on a memoized node or a combinator.
C1_NeverStale ==
    (~crashed /\ ~loaded) =>
        /\ \A n \in Ids :
              (Live(n) /\ Memo(n) /\ val[n] # Null /\ AllSet(n))
                 => val[n] = Expected(n)
        /\ (op.name = "get" /\ ~Source(op.node) /\ AllSet(op.node))
              => ret = Expected(op.node)

\* ------------------------------------------------------------------ C2
\* C2 as claimed: a get on a memoized node with a filled cache invokes
\* nothing and returns the cache, a get on one with an empty cache invokes
\* its function once and caches what it returns, and a filled cache stays as
\* it is through every operation that is not a set on a source upstream.
C2_RunOfGets ==
    [][~crashed' =>
        \A n \in Ids : (Memo(n) /\ Live(n)') =>
            /\ IsGet(op', n) =>
                  IF val[n] # Null
                  THEN calls'[n] = 0 /\ ret' = val[n] /\ val'[n] = val[n]
                  ELSE calls'[n] = 1 /\ ret' # Null /\ val'[n] = ret'
            /\ (val[n] # Null /\ ~(op'.name = "set" /\ op'.node \in Sources(n)))
                  => val'[n] = val[n]]_vars

\* C2 amended: the same, the cache staying as it is only while Graph::load
\* has not been called.
C2_RunOfGetsNoLoad ==
    [][~crashed' =>
        \A n \in Ids : (Memo(n) /\ Live(n)') =>
            /\ IsGet(op', n) =>
                  IF val[n] # Null
                  THEN calls'[n] = 0 /\ ret' = val[n] /\ val'[n] = val[n]
                  ELSE calls'[n] = 1 /\ ret' # Null /\ val'[n] = ret'
            /\ (val[n] # Null /\ ~loaded'
                  /\ ~(op'.name = "set" /\ op'.node \in Sources(n)))
                  => val'[n] = val[n]]_vars

\* a second get in a run: the cache was filled and the get invoked nothing
C2_Witness ==
    /\ ~loaded /\ op.name = "get" /\ Memo(op.node)
    /\ calls[op.node] = 0 /\ ret = val[op.node] /\ ret = Expected(op.node)

\* ------------------------------------------------------------------ C3
\* C3: in a chain of a source a, a memoized b = f(a) and a memoized
\* c = g(b), the get on c that follows a.set(v2) invokes f once and g once
\* and returns g(f(v2)); and no get invokes the function of a memoized node
\* more than once.
C3_Propagation ==
    /\ [](op.name = "get" => \A n \in Ids : Memo(n) => calls[n] <= 1)
    /\ [][\A a, b, c \in Ids :
            (Chain(a, b, c) /\ op = [name |-> "set", node |-> a, arg |-> val[a]]
               /\ IsGet(op', c))
            => /\ calls'[b] = 1 /\ calls'[c] = 1
               /\ ret' = Apply(nodes[c].fn, <<Apply(nodes[b].fn, <<val[a]>>)>>)
               /\ val'[c] = ret']_vars

\* the chain inc, dbl read after the source went from 1 to 2
C3_Witness ==
    /\ Len(nodes) = 3 /\ Chain(1, 2, 3)
    /\ nodes[2].fn = "inc" /\ nodes[3].fn = "dbl"
    /\ IsGet(op, 3) /\ calls[2] = 1 /\ calls[3] = 1
    /\ val[1] = 2 /\ ret = 6

\* ------------------------------------------------------------------ C4
\* C4: only a get invokes a user function; after a set on a source every
\* live memoized node that transitively reads the source, through
\* combinators too, has an empty cache.
C4_SetIsLazy ==
    /\ op.name # "get" => NoCalls
    /\ op.name = "set" =>
          \A n \in Ids :
             (Live(n) /\ Memo(n) /\ op.node \in Reads(n)) => val[n] = Null

\* a set that emptied the filled cache of a memoized node it reaches through
\* a combinator only
C4_Witness ==
    /\ op.name = "set"
    /\ \E n \in cleared : \E p \in Ids :
          /\ Memo(n) /\ Comb(p)
          /\ nodes[n].ups = <<p>> /\ op.node \in Reads(p)

\* ------------------------------------------------------------------ C5
\* C5: a combinator invokes its function once for every get call made on it,
\* by the caller or by a downstream node, a get by the caller invokes it
\* exactly once, and a combinator never holds a value.
C5_CombinatorFresh ==
    ~crashed =>
        \A p \in Ids : Comb(p) =>
            /\ calls[p] = gets[p]
            /\ IsGet(op, p) => calls[p] = 1
            /\ val[p] = Null

\* a get on a combinator that follows a get on it, no set in between: the
\* sources hold what they were created with
C5_Witness ==
    /\ op.name = "get" /\ Comb(op.node) /\ calls[op.node] = 1
    /\ \E n \in Ids : Memo(n) /\ op.node \in Reads(n) /\ val[n] # Null
    /\ AllSet(op.node)

\* ------------------------------------------------------------------ C6
\* C6: in main.cpp every get on d returns (a + b) * a for the current values
\* of a and b, and the run of main prints 3, 54755 and 209567.
C6_Worked ==
    /\ IsGet(op, 4) => ret = (val[1] + val[2]) * val[1]
    /\ step = 1 => ret = 3
    /\ step = 3 => ret = 54755
    /\ step = 5 => ret = 209567

\* ------------------------------------------------------------------ C7
\* C7: dump changes no slot and invokes nothing, and a load of the snapshot
\* right after the dump that returned it leaves every slot as it was before
\* the dump, throws nothing and invokes nothing.
C7_RoundTrip ==
    [][/\ op'.name = "dump" => (val' = val /\ NoCalls')
       /\ (op.name = "dump" /\ op' = [name |-> "load", node |-> 0, arg |-> 0])
             => (val' = val /\ NoCalls' /\ err' = "none"
                  /\ stored' = {snap[i].node : i \in 1..Len(snap)})]_vars

\* a load that stored an empty and a filled slot, each node holding what its
\* snapshot entry holds
C7_Witness ==
    /\ op = [name |-> "load", node |-> 0, arg |-> 0] /\ err = "none"
    /\ \E n, m \in stored : val[n] = Null /\ val[m] # Null
    /\ \A i \in 1..Len(snap) : val[snap[i].node] = snap[i].box.ptr
    /\ \A n \in Ids : Live(n)

\* ------------------------------------------------------------------ C8
\* C8: a set throws nothing, and after it neither the source nor any live
\* node downstream of it has an edge to a destroyed node.
C8_DanglingPruned ==
    op.name = "set" =>
        /\ err = "none" /\ ~crashed
        /\ \A m \in Ids :
              (Live(m) /\ op.node \in Reads(m)) =>
                  \A i \in 1..Len(down[m]) : Live(down[m][i])

\* a set on a live source that erased the edge to a destroyed memoized node
C8_Witness ==
    /\ op.name = "set" /\ pruned > 0
    /\ \E d \in Ids : Memo(d) /\ ~Live(d) /\ op.node \in Range(nodes[d].ups)

\* ------------------------------------------------------------------ C9
\* C9: a get that reads a source holding no value fails with
\* UninitializedRead and leaves every slot as it was.
C9_UninitializedRead ==
    [][(op'.name = "get" /\ ubread')
          => (err' = "UninitializedRead" /\ ~crashed' /\ val' = val)]_vars

\* ----------------------------------------------------------------- C10
\* C10: a load that fails on a box of the wrong type has changed no slot.
C10_LoadAtomic ==
    [][(op'.name = "load" /\ err' = "bad_any_cast") => val' = val]_vars

\* ----------------------------------------------------------------- C11
\* C11: a node is alive exactly when the caller holds a handle to it or a
\* live memoized node or combinator was built from it; a downstream edge or
\* a registry entry keeps nothing alive.
C11_Ownership ==
    \A n \in Ids :
        Live(n) <=> (n \in handle
                        \/ \E m \in Ids : Live(m) /\ n \in Range(nodes[m].ups))

\* a source the caller has dropped lives on under a live derived node, and a
\* destroyed node is still named by a downstream edge and a registry entry
C11_Witness ==
    /\ \E n, m \in Ids :
          /\ Source(n) /\ n \notin handle /\ Live(n)
          /\ m \in handle /\ n \in Range(nodes[m].ups)
    /\ \E d, u \in Ids :
          /\ ~Live(d) /\ Live(u) /\ d \in Range(down[u])
          /\ \E g \in GraphIds : d \in Range(graphs[g])

\* C12: the built-in registry is the active one at the start; constructing a
\* source or a memoized node appends exactly that node to the registry
\* active at that moment and touches no other registry; constructing a
\* combinator appends to none; switching the active registry moves no entry,
\* and nothing but the switch changes which registry is active.
C12_Registration ==
    /\ active = "default"
    /\ [][ /\ op'.name \in {"root", "node"} =>
                graphs' = [graphs EXCEPT ![active] = Append(@, op'.node)]
           /\ op'.name = "path" => graphs' = graphs
           /\ op'.name = "use" => graphs' = graphs /\ active' # active
           /\ op'.name # "use" => active' = active ]_vars

C12_Witness ==
    /\ op.name = "path"
    /\ \A g \in GraphIds : graphs[g] # <<>> /\ op.node \notin Range(graphs[g])
    /\ Range(graphs["default"]) \cap Range(graphs["user"]) = {}

\* the nodes that have an entry in the snapshot s
Entries(s) == {s[i].node : i \in 1..Len(s)}

\* C13: a load writes slots directly: it runs no invalidation walk, calls no
\* function, changes no downstream edge list, and changes the slot of no
\* node that has no entry in the snapshot.
C13_LoadDirect ==
    [][ op'.name = "load" =>
           /\ cleared' = {}
           /\ NoCalls'
           /\ down' = down
           /\ \A n \in Ids : n \notin Entries(snap) => val'[n] = val[n] ]_vars

\* a memoized node created after the dump keeps its cache although the load
\* has just overwritten its upstream with another value
C13_Witness ==
    /\ op.name = "load" /\ err = "none"
    /\ \E n \in Ids :
          /\ Memo(n) /\ Live(n) /\ n \notin Entries(snap)
          /\ val[n] # Null /\ AllSet(n) /\ val[n] # Expected(n)
          /\ \E u \in Range(nodes[n].ups) : u \in stored

\* the entries of the list s that refer to a live node, in the order of s
LiveOf(s) == SelectSeq(s, LAMBDA n : Live(n))

\* C14, as stated: after a dump and after a load on a registry, the list of
\* that registry holds no entry of a destroyed node.
C14_PrunedByDumpAndLoad ==
    op.name \in {"dump", "load"} => \A n \in Range(graphs[recv]) : Live(n)

\* C14, amended: a registry list changes only by the append of the node
\* under construction to the active registry and by a dump, which leaves in
\* the dumped registry exactly its live entries in their order; a load
\* changes no registry list.
C14_PrunedByDumpOnly ==
    [][ /\ op'.name = "dump" =>
               graphs' = [graphs EXCEPT ![recv'] = LiveOf(@)]
        /\ op'.name = "load" => graphs' = graphs
        /\ graphs' # graphs =>
               \/ op'.name = "dump"
               \/ /\ op'.name \in {"root", "node"}
                  /\ graphs' = [graphs EXCEPT ![active] = Append(@, op'.node)]
      ]_vars

\* a load has dropped a dead entry from the snapshot and left the entry of
\* the same destroyed node in the list of its registry
C14_Witness ==
    /\ op.name = "load" /\ pruned > 0
    /\ \E n \in Range(graphs[recv]) : ~Live(n) /\ n \notin Entries(snap)

\* C15: the result of a dump has one entry for each live node in the list of
\* the dumped registry and no other entry, in the order of creation, each
\* with the slot the node has at that moment (an empty slot as an empty
\* box); the dump changes no slot and calls no function.
C15_DumpExact ==
    [][ op'.name = "dump" =>
           /\ [i \in 1..Len(snap') |-> snap'[i].node] = LiveOf(graphs[recv'])
           /\ \A i, j \in 1..Len(snap') :
                  i < j => snap'[i].node < snap'[j].node
           /\ \A i \in 1..Len(snap') :
                  snap'[i].box = [type |-> "int", ptr |-> val[snap'[i].node]]
           /\ val' = val
           /\ NoCalls' ]_vars

\* a dump of one registry with an empty and a filled slot in its result,
\* while a live node of the other registry is left out
C15_Witness ==
    /\ op.name = "dump"
    /\ \E i, j \in 1..Len(snap) :
          snap[i].box.ptr = Null /\ snap[j].box.ptr # Null
    /\ \E g \in GraphIds \ {recv} : \E n \in Range(graphs[g]) :
          Live(n) /\ n \notin Entries(snap)

\* the cache of the memoized node n goes from filled to empty in this step
Emptied(n) == Memo(n) /\ Live(n) /\ Live(n)' /\ val[n] # Null /\ val'[n] = Null

\* C16, as stated: whatever the operation, the cache of a memoized node goes
\* from filled to empty only by the release of an invalidation walk.
C16_ClearedOnlyByInvalidate ==
    [][ \A n \in Ids : Emptied(n) => n \in cleared' ]_vars

\* C16, amended: the cache of a memoized node goes from filled to empty only
\* by the release of an invalidation walk or by a load that stores into the
\* node the empty box its snapshot entry holds.
C16_ClearedByInvalidateOrLoad ==
    [][ \A n \in Ids :
           Emptied(n) =>
              \/ n \in cleared'
              \/ /\ op'.name = "load" /\ n \in stored'
                 /\ \E i \in 1..Len(snap) :
                        snap[i].node = n /\ snap[i].box.ptr = Null ]_vars

\* a load has stored an empty box into a memoized node whose dependent,
\* absent from the snapshot, still holds what it computed from it
C16_Witness ==
    /\ op.name = "load" /\ cleared = {}
    /\ \E n, m \in Ids :
          /\ Memo(n) /\ Live(n) /\ n \in stored /\ val[n] = Null
          /\ Memo(m) /\ Live(m) /\ n \in Range(nodes[m].ups)
          /\ m \notin stored /\ val[m] # Null

\* every node reads older nodes only and is read by younger nodes only
WellFounded ==
    \A n \in Ids :
        /\ \A u \in Range(nodes[n].ups) : u < n
        /\ \A d \in Range(down[n]) : n < d

\* C17: the dependency relation is acyclic in every reachable state (each
\* node is built from nodes that exist already and is never rewired), so
\* the upstream pull of a get enters a node at most once per dependency
\* path leading to it, and the invalidation walk of a set goes to younger
\* nodes only: both finish.
C17_Terminates ==
    /\ WellFounded
    /\ [][ /\ WellFounded'
           /\ \A n \in Ids : nodes'[n] = nodes[n]
           /\ op'.name = "get" =>
                  \A m \in Ids :
                     gets'[m] <= (IF m <= op'.node THEN 2 ^ (op'.node - m)
                                  ELSE 0)
           /\ op'.name = "set" =>
                  \A m \in cleared' : op'.node <= m ]_vars

\* a set whose walk went two levels down and released, below a memoized
\* node, a node built from two arguments
C17_Witness ==
    /\ op.name = "set"
    /\ \E b, c \in cleared :
          /\ Memo(b) /\ b \in Range(down[op.node])
          /\ c \in Range(down[b]) /\ Len(nodes[c].ups) = 2

\* n is a live node that reads a, directly or through other nodes
Below(a, n) == n # a /\ Live(n) /\ a \in Reads(n)

\* C18: a set on the source a changes the slot of no other source and of no
\* memoized node that does not read a; the downstream list of a and of each
\* node that reads a loses its edges to destroyed nodes and no other edge,
\* and every other downstream list stays as it is.
C18_SetFrame ==
    [][ op'.name = "set" =>
           LET a == op'.node IN
           /\ \A n \in Ids \ {a} :
                  Source(n) \/ (Memo(n) /\ ~Below(a, n)) => val'[n] = val[n]
           /\ \A n \in Ids :
                  down'[n] = IF n = a \/ Below(a, n) THEN LiveOf(down[n])
                             ELSE down[n]
           /\ nodes' = nodes /\ refcnt' = refcnt ]_vars

\* after a set on one source, another source and a memoized node that reads
\* only that other source hold their values
C18_Witness ==
    /\ op.name = "set"
    /\ \E s, n \in Ids \ {op.node} :
          /\ Source(s) /\ val[s] # Null
          /\ Memo(n) /\ Live(n) /\ val[n] # Null
          /\ Reads(n) = {n, s}

\* each entry of the snapshot holds the slot its node had when it was dumped
AsDumped ==
    \A i \in 1..Len(snap) :
        snap[i].node \in DOMAIN dumped /\ snap[i].box.ptr = dumped[snap[i].node]

\* C19: the snapshot keeps the slots it recorded, whatever is set, read,
\* built or dropped after the dump (a set leaves the snapshot as it is), and
\* a load of it puts every live node that was dumped into the slot state,
\* empty or filled, that it had at the dump.
C19_SnapshotStable ==
    /\ AsDumped
    /\ [][ /\ AsDumped'
           /\ op'.name \in {"set", "get"} => snap' = snap
           /\ (op'.name = "load" /\ op'.arg = 0) =>
                  /\ err' = "none"
                  /\ \A n \in DOMAIN dumped : Live(n) => val'[n] = dumped[n]
         ]_vars

\* a load has put a source and a memoized node back to what they held at the
\* dump, after a set that changed the source and a get that filled, from the
\* changed source, the cache of a node built after the dump
C19_Witness ==
    /\ op.name = "load" /\ op.arg = 0 /\ err = "none"
    /\ \E s, n, m \in Ids :
          /\ Source(s) /\ s \in stored /\ val[s] = dumped[s]
          /\ Memo(n) /\ n \in stored /\ val[n] = dumped[n] /\ val[n] # Null
          /\ Memo(m) /\ m \notin DOMAIN dumped /\ nodes[m].ups = <<s>>
          /\ val[m] # Null /\ val[m] # Expected(m)

\* C20: a load through any registry stores every snapshot entry whose node
\* is alive, whichever registry holds the node, with the result the load
\* through any other registry has; it removes from the snapshot the entries
\* of destroyed nodes and leaves every registry list as it is.
C20_LoadAnyRegistry ==
    [][ op'.name = "load" =>
           /\ err' = "none"
           /\ stored' = {n \in Entries(snap) : Live(n)}
           /\ \A i \in 1..Len(snap) :
                  Live(snap[i].node) => val'[snap[i].node] = snap[i].box.ptr
           /\ snap' = SelectSeq(snap, LAMBDA e : Live(e.node))
           /\ graphs' = graphs
           /\ \A g \in GraphIds :
                  LET r == GraphLoad(Machine, g, snap) IN
                  val' = r.M.val /\ snap' = r.snap ]_vars

\* a load through one registry has stored into a node of the other registry
\* and dropped the snapshot entry of a destroyed node
C20_Witness ==
    /\ op.name = "load" /\ pruned > 0
    /\ \E n \in stored :
          /\ n \notin Range(graphs[recv])
          /\ \E g \in GraphIds \ {recv} : n \in Range(graphs[g])

====
